---- MODULE Spec2Model ----
(***************************************************************************)
(* Model of src/app/SimliOpenAI.tsx: the SimliOpenAI React component that  *)
(* relays audio between a speech endpoint (RealtimeClient) and an avatar   *)
(* rendering endpoint (SimliClient).                                       *)
(*                                                                         *)
(* Every handler of the component is one action.  JavaScript runs each     *)
(* handler to completion, so an action is the code between two awaits; an  *)
(* async function is split at its awaits and the part after an await is    *)
(* the action that fires when the awaited promise settles.                 *)
(*                                                                         *)
(* The two endpoint clients, the microphone and the host callbacks are     *)
(* outside the component.  The calls a handler makes on them are recorded  *)
(* in `calls`; their answers (a promise resolving or rejecting, an event,  *)
(* sendAudioData raising) are inputs chosen with \E.                       *)
(***************************************************************************)
EXTENDS Integers, Sequences, FiniteSets, TLC

VARIABLES
  \* React state (lines 29-35)
  isLoading, isAvatarVisible, error, isRecording, userMessage,
  isSimliConnected, isReconnectingSimli,
  \* refs (lines 40-48); a ref to an object is TRUE when it is not null
  openAIClientRef, audioContextRef, streamRef, processorRef,
  audioChunkQueueRef, isProcessingChunkRef,
  \* the two endpoints as the component drives them
  simliState, oaConn, oaHandlers,
  \* resources outside the refs: media streams with live tracks,
  \* script processors still connected to the audio graph
  liveStreams, liveProcessors,
  \* suspended async functions, by the await they wait at
  startPending, initPc, micPending,
  \* observation: chunks pushed on the queue, chunks passed to sendAudioData,
  \* the handler that ran last, the calls it made, and whether handleStop ran
  \* after the last start request
  pushed, sent, lastOp, calls, stopRequested

vars == << isLoading, isAvatarVisible, error, isRecording, userMessage,
           isSimliConnected, isReconnectingSimli,
           openAIClientRef, audioContextRef, streamRef, processorRef,
           audioChunkQueueRef, isProcessingChunkRef,
           simliState, oaConn, oaHandlers,
           liveStreams, liveProcessors,
           startPending, initPc, micPending,
           pushed, sent, lastOp, calls, stopRequested >>

reactVars == << isLoading, isAvatarVisible, error, isRecording, userMessage >>
connVars == << isSimliConnected, isReconnectingSimli >>
queueVars == << audioChunkQueueRef, isProcessingChunkRef, pushed, sent >>
micVars == << audioContextRef, streamRef, processorRef, liveStreams, liveProcessors >>
oaVars == << openAIClientRef, oaConn, oaHandlers >>
pendVars == << startPending, initPc, micPending >>

----------------------------------------------------------------------------
\* Bounds of the model

\* audio deltas delivered by the speech endpoint in one run
MaxChunks == 2
\* suspended handleStart calls at a time; microphone requests outstanding
\* plus media streams alive at a time
MaxPending == 1

----------------------------------------------------------------------------
\* Program constants

InputRate == 24000
OutputRate == 16000
Int16Max == 32767

\* One sample as the audio API hands it over, in thousandths: 1000 is 1.0
Unit == 1000

\* Microphone frames (Float32 samples, some outside [-1, 1])
Frames == { << -2000, 500 >> }

\* Audio deltas of the speech endpoint (Int16 samples at 24000 Hz)
AudioDeltas == { << 0, 300, 600 >>, << 900, -300, 0 >> }

\* User transcripts
Transcripts == { "hello" }

----------------------------------------------------------------------------
\* Helpers

Call(n, a) == [name |-> n, arg |-> a]

HasCall(cs, n) == \E i \in 1..Len(cs) : cs[i].name = n

Min(a, b) == IF a < b THEN a ELSE b
Max(a, b) == IF a > b THEN a ELSE b

\* onaudioprocess, lines 189-196: clamp each sample to [-1, 1], scale by
\* 32767 and floor
toInt16Frame(inputData) ==
  [i \in 1..Len(inputData) |->
     LET sample == Max(-Unit, Min(Unit, inputData[i]))
     IN (sample * Int16Max) \div Unit]

\* downsampleAudio(audio, 24000, 16000): called at line 106, defined outside
\* this file.  Linear interpolation from inRate to outRate, each output sample
\* clamped to the int16 range (spec 4.1).
downsampleAudio(audio, inRate, outRate) ==
  LET n == (Len(audio) * outRate) \div inRate
  IN [i \in 1..n |->
        LET pos == (i - 1) * inRate
            idx == pos \div outRate
            frac == pos % outRate
            a == audio[idx + 1]
            b == IF idx + 2 <= Len(audio) THEN audio[idx + 2] ELSE a
        IN Max(-Int16Max - 1, Min(Int16Max, a + ((b - a) * frac) \div outRate))]

\* processNextAudioChunk, lines 125-136.  failAt = k > 0: the k-th call of
\* sendAudioData made by this drain raises, and the exception leaves the
\* function before line 132; failAt = 0: no call raises.
RECURSIVE processNextAudioChunk(_, _, _, _)
processNextAudioChunk(queue, busy, out, failAt) ==
  IF Len(queue) > 0 /\ ~busy
  THEN LET audioChunk == Head(queue)
           rest == Tail(queue)
       IN IF failAt = 1
          THEN [queue |-> rest, busy |-> TRUE, out |-> Append(out, audioChunk)]
          ELSE processNextAudioChunk(rest, FALSE, Append(out, audioChunk),
                                     IF failAt = 0 THEN 0 ELSE failAt - 1)
  ELSE [queue |-> queue, busy |-> busy, out |-> out]

\* handleConversationUpdate without the busy test: the drain runs as if the
\* flag were free
handleConversationUpdateIgnoresBusy(queue, busy, chunk, failAt) ==
  processNextAudioChunk(Append(queue, chunk), FALSE, <<>>, failAt)

\* handleConversationUpdate, lines 106-110: push the chunk, and drain unless
\* a drain holds the busy flag
handleConversationUpdate(queue, busy, chunk, failAt) ==
  IF ~busy
  THEN processNextAudioChunk(Append(queue, chunk), busy, <<>>, failAt)
  ELSE [queue |-> Append(queue, chunk), busy |-> busy, out |-> <<>>]

\* stopRecording with line 219 forgotten: the tracks are stopped but the ref
\* keeps the stream
stopRecordingKeepsStream(proc, strm, nProc, nStrm) ==
  [processorRef |-> FALSE,
   streamRef |-> strm,
   liveProcessors |-> IF proc THEN nProc - 1 ELSE nProc,
   liveStreams |-> IF strm THEN nStrm - 1 ELSE nStrm,
   calls |-> (IF proc THEN << Call("processor.disconnect", <<>>) >> ELSE <<>>)
             \o (IF strm THEN << Call("track.stop", <<>>) >> ELSE <<>>)]

\* stopRecording, lines 212-223: what it leaves of the capture state
stopRecording(proc, strm, nProc, nStrm) ==
  [processorRef |-> FALSE,
   streamRef |-> FALSE,
   liveProcessors |-> IF proc THEN nProc - 1 ELSE nProc,
   liveStreams |-> IF strm THEN nStrm - 1 ELSE nStrm,
   calls |-> (IF proc THEN << Call("processor.disconnect", <<>>) >> ELSE <<>>)
             \o (IF strm THEN << Call("track.stop", <<>>) >> ELSE <<>>)]

\* every handler run is observed: its name and the calls it made
Observe(op, cs) ==
  /\ lastOp' = op
  /\ calls' = cs

----------------------------------------------------------------------------
\* State after the component is mounted (lines 29-48, effect of lines 259-267)

Init ==
  /\ isLoading = FALSE
  /\ isAvatarVisible = FALSE
  /\ error = ""
  /\ isRecording = FALSE
  /\ userMessage = "..."
  /\ isSimliConnected = TRUE
  /\ isReconnectingSimli = FALSE
  /\ openAIClientRef = FALSE
  /\ audioContextRef = FALSE
  /\ streamRef = FALSE
  /\ processorRef = FALSE
  /\ audioChunkQueueRef = <<>>
  /\ isProcessingChunkRef = FALSE
  /\ simliState = "idle"
  /\ oaConn = "idle"
  /\ oaHandlers = FALSE
  /\ liveStreams = 0
  /\ liveProcessors = 0
  /\ startPending = 0
  /\ initPc = "idle"
  /\ micPending = 0
  /\ pushed = <<>>
  /\ sent = <<>>
  /\ lastOp = "mount"
  /\ calls = <<>>
  /\ stopRequested = FALSE

----------------------------------------------------------------------------
\* handleStart, lines 226-241

\* lines 227-233, up to the await of simliClient.start().  The component is
\* mounted, so videoRef and audioRef are set and line 63 runs.
handleStart ==
  /\ isLoading' = TRUE
  /\ error' = ""
  /\ simliState' = "starting"
  /\ startPending' = startPending + 1
  /\ stopRequested' = FALSE
  /\ Observe("handleStart",
             << Call("onStart", <<>>), Call("simli.Initialize", <<>>),
                Call("simli.start", <<>>) >>)
  /\ UNCHANGED << isAvatarVisible, isRecording, userMessage, connVars, queueVars,
                  micVars, oaVars, initPc, micPending >>

\* handleStart invoked by its host
HandleStart ==
  /\ startPending < MaxPending
  /\ handleStart

\* simliClient.start() resolved: the finally block, lines 237-240
StartResolved ==
  /\ startPending > 0
  /\ startPending' = startPending - 1
  /\ isAvatarVisible' = TRUE
  /\ isLoading' = FALSE
  /\ Observe("startResolved", <<>>)
  /\ UNCHANGED << error, isRecording, userMessage, connVars, queueVars, micVars,
                  oaVars, simliState, initPc, micPending, stopRequested >>

\* simliClient.start() rejected: the catch block, lines 234-236, then finally
StartRejected ==
  /\ startPending > 0
  /\ startPending' = startPending - 1
  /\ error' = "Error starting interaction"
  /\ isAvatarVisible' = TRUE
  /\ isLoading' = FALSE
  /\ simliState' = IF simliState = "starting" THEN "idle" ELSE simliState
  /\ Observe("startRejected", <<>>)
  /\ UNCHANGED << isRecording, userMessage, connVars, queueVars, micVars,
                  oaVars, initPc, micPending, stopRequested >>

----------------------------------------------------------------------------
\* handleStop, lines 244-257

HandleStop ==
  LET rec == stopRecording(processorRef, streamRef, liveProcessors, liveStreams)
  IN
  /\ isLoading' = FALSE
  /\ error' = ""
  /\ processorRef' = rec.processorRef
  /\ streamRef' = rec.streamRef
  /\ liveProcessors' = rec.liveProcessors
  /\ liveStreams' = rec.liveStreams
  /\ isRecording' = FALSE
  /\ isAvatarVisible' = FALSE
  /\ simliState' = "closed"
  /\ oaConn' = IF openAIClientRef THEN "idle" ELSE oaConn
  /\ audioContextRef' = FALSE
  /\ stopRequested' = TRUE
  /\ Observe("handleStop",
             rec.calls
             \o << Call("simli.close", <<>>) >>
             \o (IF openAIClientRef THEN << Call("openai.disconnect", <<>>) >> ELSE <<>>)
             \o (IF audioContextRef THEN << Call("audioContext.close", <<>>) >> ELSE <<>>)
             \o << Call("onClose", <<>>) >>)
  /\ UNCHANGED << userMessage, connVars, queueVars, openAIClientRef, oaHandlers,
                  pendVars >>

----------------------------------------------------------------------------
\* initializeOpenAIClient, lines 69-98.  No handler of this file calls it
\* (handleStart, lines 231-233, starts only the rendering endpoint); it is
\* modelled as an operation of the component that its host may invoke.  It is
\* invoked while no other initialization is suspended and the client the ref
\* holds is not connected, so one speech client is live at a time.

\* lines 71-82, up to the await of updateSession
InitializeOpenAIClient ==
  /\ initPc = "idle"
  /\ oaConn # "connected"
  /\ openAIClientRef' = TRUE
  /\ oaConn' = "idle"
  /\ oaHandlers' = FALSE
  /\ initPc' = "updateSession"
  /\ stopRequested' = FALSE
  /\ Observe("initializeOpenAIClient",
             << Call("openai.new", <<>>), Call("openai.updateSession", <<>>) >>)
  /\ UNCHANGED << reactVars, connVars, queueVars, micVars, simliState,
                  startPending, micPending >>

\* updateSession resolved: lines 84-88, up to the await of connect
UpdateSessionResolved ==
  /\ initPc = "updateSession"
  /\ oaHandlers' = TRUE
  /\ oaConn' = "connecting"
  /\ initPc' = "connect"
  /\ Observe("updateSessionResolved",
             << Call("openai.on", <<>>), Call("openai.on", <<>>),
                Call("openai.on", <<>>), Call("openai.connect", <<>>) >>)
  /\ UNCHANGED << reactVars, connVars, queueVars, micVars, simliState,
                  openAIClientRef, startPending, micPending,
                  stopRequested >>

\* updateSession rejected: the catch block, lines 94-97
UpdateSessionRejected ==
  /\ initPc = "updateSession"
  /\ initPc' = "idle"
  /\ error' = "Failed to initialize OpenAI client"
  /\ Observe("updateSessionRejected", <<>>)
  /\ UNCHANGED << isLoading, isAvatarVisible, isRecording, userMessage, connVars,
                  queueVars, micVars, simliState, oaVars, startPending,
                  micPending, stopRequested >>

\* connect resolved: lines 88-93.  The then-callback calls startRecording,
\* which runs to its await of getUserMedia (lines 175-183); then line 93.
ConnectResolved ==
  /\ initPc = "connect"
  /\ micPending + liveStreams < MaxPending
  /\ initPc' = "idle"
  /\ oaConn' = "connected"
  /\ audioContextRef' = TRUE
  /\ micPending' = micPending + 1
  /\ isAvatarVisible' = TRUE
  /\ Observe("connectResolved",
             (IF audioContextRef THEN <<>> ELSE << Call("AudioContext.new", <<>>) >>)
             \o << Call("getUserMedia", <<>>) >>)
  /\ UNCHANGED << isLoading, error, isRecording, userMessage, connVars, queueVars,
                  streamRef, processorRef, liveStreams, liveProcessors,
                  simliState, openAIClientRef, oaHandlers,
                  startPending, stopRequested >>

\* connect rejected: the catch block, lines 94-97
ConnectRejected ==
  /\ initPc = "connect"
  /\ initPc' = "idle"
  /\ oaConn' = "idle"
  /\ error' = "Failed to initialize OpenAI client"
  /\ Observe("connectRejected", <<>>)
  /\ UNCHANGED << isLoading, isAvatarVisible, isRecording, userMessage, connVars,
                  queueVars, micVars, simliState, openAIClientRef, oaHandlers,
                  startPending, micPending, stopRequested >>

----------------------------------------------------------------------------
\* startRecording after its await, lines 181-208

\* getUserMedia resolved: the stream is stored (line 181); line 184 uses
\* audioContextRef.current, and when handleStop has set it to null in the
\* meantime the TypeError is caught at line 205.
MicGranted ==
  /\ micPending > 0
  /\ micPending' = micPending - 1
  /\ streamRef' = TRUE
  /\ liveStreams' = liveStreams + 1
  /\ IF audioContextRef
     THEN /\ processorRef' = TRUE
          /\ liveProcessors' = liveProcessors + 1
          /\ isRecording' = TRUE
          /\ error' = error
          /\ Observe("micGranted",
                     << Call("createMediaStreamSource", <<>>),
                        Call("createScriptProcessor", <<>>),
                        Call("source.connect", <<>>),
                        Call("processor.connect", <<>>) >>)
     ELSE /\ error' = "Error accessing microphone"
          /\ Observe("micGranted", <<>>)
          /\ UNCHANGED << processorRef, liveProcessors, isRecording >>
  /\ UNCHANGED << isLoading, isAvatarVisible, userMessage, connVars, queueVars,
                  audioContextRef, simliState, oaVars, startPending, initPc,
                  stopRequested >>

\* getUserMedia rejected: the catch block, lines 205-208
MicDenied ==
  /\ micPending > 0
  /\ micPending' = micPending - 1
  /\ error' = "Error accessing microphone"
  /\ Observe("micDenied", <<>>)
  /\ UNCHANGED << isLoading, isAvatarVisible, isRecording, userMessage, connVars,
                  queueVars, micVars, simliState, oaVars, startPending, initPc,
                  stopRequested >>

\* onaudioprocess, lines 187-199: fired by every processor still connected
OnAudioProcess ==
  \E inputData \in Frames :
    /\ liveProcessors > 0
    /\ Observe("onaudioprocess",
               IF openAIClientRef
               THEN << Call("openai.appendInputAudio", toInt16Frame(inputData)) >>
               ELSE <<>>)
    /\ UNCHANGED << reactVars, connVars, queueVars, micVars, simliState, oaVars,
                    pendVars, stopRequested >>

----------------------------------------------------------------------------
\* Events of the speech endpoint, delivered to the handlers registered at
\* lines 84-86 while the client is connected

SpeechEventsOn == oaHandlers /\ oaConn = "connected"

\* handleConversationUpdate, lines 101-115, an assistant message with audio
AssistantAudioDelta ==
  \E audio \in AudioDeltas :
    LET downsampledAudio == downsampleAudio(audio, InputRate, OutputRate)
    IN
    \E failAt \in 0..(Len(audioChunkQueueRef) + 1) :
      LET drained == handleConversationUpdate(audioChunkQueueRef, isProcessingChunkRef,
                                              downsampledAudio, failAt)
      IN
      /\ SpeechEventsOn
      /\ Len(pushed) < MaxChunks
      /\ (failAt > 0 => Len(drained.out) >= failAt)
      /\ pushed' = Append(pushed, downsampledAudio)
      /\ audioChunkQueueRef' = drained.queue
      /\ isProcessingChunkRef' = drained.busy
      /\ sent' = sent \o drained.out
      /\ Observe("assistantAudioDelta",
                 [i \in 1..Len(drained.out) |-> Call("simli.sendAudioData", drained.out[i])])
      /\ UNCHANGED << reactVars, connVars, micVars, simliState, oaVars, pendVars,
                      stopRequested >>

\* handleConversationUpdate, an assistant message without audio (line 105
\* false) or an item that is not a message: nothing is done
OtherConversationUpdate ==
  /\ SpeechEventsOn
  /\ Observe("otherConversationUpdate", <<>>)
  /\ UNCHANGED << reactVars, connVars, queueVars, micVars, simliState, oaVars,
                  pendVars, stopRequested >>

\* handleConversationUpdate, a user message: lines 112-113
UserTranscript ==
  \E transcript \in Transcripts :
    /\ SpeechEventsOn
    /\ userMessage' = transcript
    /\ Observe("userTranscript", <<>>)
    /\ UNCHANGED << isLoading, isAvatarVisible, error, isRecording, connVars,
                    queueVars, micVars, simliState, oaVars, pendVars, stopRequested >>

\* interruptConversation that also empties the chunk queue
InterruptConversationFlushes ==
  /\ SpeechEventsOn
  /\ audioChunkQueueRef' = <<>>
  /\ Observe("interruptConversation",
             << Call("simli.ClearBuffer", <<>>) >>
             \o (IF openAIClientRef THEN << Call("openai.cancelResponse", <<>>) >> ELSE <<>>))
  /\ UNCHANGED << reactVars, connVars, isProcessingChunkRef, pushed, sent, micVars,
                  simliState, oaVars, pendVars, stopRequested >>

\* interruptConversation, lines 118-122
InterruptConversation ==
  /\ SpeechEventsOn
  /\ Observe("interruptConversation",
             << Call("simli.ClearBuffer", <<>>) >>
             \o (IF openAIClientRef THEN << Call("openai.cancelResponse", <<>>) >> ELSE <<>>))
  /\ UNCHANGED << reactVars, connVars, queueVars, micVars, simliState, oaVars,
                  pendVars, stopRequested >>

\* handleSpeechStopped, lines 139-141
HandleSpeechStopped ==
  /\ SpeechEventsOn
  /\ Observe("handleSpeechStopped", <<>>)
  /\ UNCHANGED << reactVars, connVars, queueVars, micVars, simliState, oaVars,
                  pendVars, stopRequested >>

----------------------------------------------------------------------------
\* Events of the rendering endpoint, wired at lines 259-267.  simliState is
\* the endpoint's connection as its events report it: "starting" after
\* start() until the first connected event.  The endpoint is opaque: once
\* started it may report connected, and once connected it may report
\* disconnected or connected at any time, also twice in a row.

\* pauseOpenAI, lines 160-164
pauseOpenAI(client) ==
  IF client THEN << Call("openai.pause", <<>>) >> ELSE <<>>

\* resumeOpenAI, lines 167-171
resumeOpenAI(client) ==
  IF client THEN << Call("openai.resume", <<>>) >> ELSE <<>>

\* handleSimliDisconnect, lines 144-149
HandleSimliDisconnect ==
  /\ simliState \in {"connected", "disconnected"}
  /\ simliState' = "disconnected"
  /\ isSimliConnected' = FALSE
  /\ isReconnectingSimli' = TRUE
  /\ Observe("handleSimliDisconnect", pauseOpenAI(openAIClientRef))
  /\ UNCHANGED << reactVars, queueVars, micVars, openAIClientRef, oaConn,
                  oaHandlers, pendVars, stopRequested >>

\* handleSimliReconnect with line 155 forgotten: the reconnecting indicator
\* is left as it is
HandleSimliReconnectKeepsIndicator ==
  /\ simliState \in {"starting", "connected", "disconnected"}
  /\ simliState' = "connected"
  /\ isSimliConnected' = TRUE
  /\ Observe("handleSimliReconnect", resumeOpenAI(openAIClientRef))
  /\ UNCHANGED << reactVars, queueVars, micVars, openAIClientRef, oaConn,
                  oaHandlers, pendVars, stopRequested, isReconnectingSimli >>

\* handleSimliReconnect, lines 152-157
HandleSimliReconnect ==
  /\ simliState \in {"starting", "connected", "disconnected"}
  /\ simliState' = "connected"
  /\ isSimliConnected' = TRUE
  /\ isReconnectingSimli' = FALSE
  /\ Observe("handleSimliReconnect", resumeOpenAI(openAIClientRef))
  /\ UNCHANGED << reactVars, queueVars, micVars, openAIClientRef, oaConn,
                  oaHandlers, pendVars, stopRequested >>

\* The rendering endpoint gives up reconnecting.  The effect at lines 259-267
\* subscribes to "disconnected" and "connected" only, so no handler of the
\* component runs.
SimliReconnectFailed ==
  /\ simliState = "disconnected"
  /\ simliState' = "failed"
  /\ Observe("simliReconnectFailed", <<>>)
  /\ UNCHANGED << reactVars, connVars, queueVars, micVars, oaVars, pendVars,
                  stopRequested >>

----------------------------------------------------------------------------
\* The buttons, lines 283-312.  The Start button is rendered while the avatar
\* is hidden and is disabled while isLoading; the Stop button is rendered
\* while the avatar is visible.

StartButtonEnabled == ~isAvatarVisible /\ ~isLoading

StopButtonShown == isAvatarVisible

\* a click on the Start button; one more handleStart may be suspended than
\* HandleStart allows, so that two of them can overlap
ClickStart ==
  /\ StartButtonEnabled
  /\ startPending < MaxPending + 1
  /\ handleStart

\* a click on the Stop button
ClickStop ==
  /\ StopButtonShown
  /\ HandleStop

----------------------------------------------------------------------------
Next ==
  \/ HandleStart
  \/ StartResolved
  \/ StartRejected
  \/ HandleStop
  \/ InitializeOpenAIClient
  \/ UpdateSessionResolved
  \/ UpdateSessionRejected
  \/ ConnectResolved
  \/ ConnectRejected
  \/ MicGranted
  \/ MicDenied
  \/ OnAudioProcess
  \/ AssistantAudioDelta
  \/ OtherConversationUpdate
  \/ UserTranscript
  \/ InterruptConversation
  \/ HandleSpeechStopped
  \/ HandleSimliDisconnect
  \/ HandleSimliReconnect
  \/ SimliReconnectFailed

Spec == Init /\ [][Next]_vars

\* The component with handleStart and handleStop reached through the buttons
\* only
NextUI ==
  \/ ClickStart
  \/ StartResolved
  \/ StartRejected
  \/ ClickStop
  \/ InitializeOpenAIClient
  \/ UpdateSessionResolved
  \/ UpdateSessionRejected
  \/ ConnectResolved
  \/ ConnectRejected
  \/ MicGranted
  \/ MicDenied
  \/ OnAudioProcess
  \/ AssistantAudioDelta
  \/ OtherConversationUpdate
  \/ UserTranscript
  \/ InterruptConversation
  \/ HandleSpeechStopped
  \/ HandleSimliDisconnect
  \/ HandleSimliReconnect
  \/ SimliReconnectFailed

SpecUI == Init /\ [][NextUI]_vars

----------------------------------------------------------------------------
\* Properties

\* the calls that give a capture resource back
ReleaseCalls == {"processor.disconnect", "track.stop", "audioContext.close"}

NoReleaseIn(cs) == \A i \in 1..Len(cs) : cs[i].name \notin ReleaseCalls

NothingHeld == ~streamRef /\ ~processorRef /\ ~audioContextRef

\* C1: the sequence of chunks passed to sendAudioData is exactly the sequence
\* of chunks pushed onto the chunk queue, under every interleaving of events.
FifoExact == sent = pushed

\* C2: when handleStart completes without error the speech client exists, has
\* its handlers registered and is connected, and audio capture has been
\* started.
StartWiresSession ==
  lastOp = "startResolved" =>
    /\ openAIClientRef
    /\ oaHandlers
    /\ oaConn = "connected"
    /\ (isRecording \/ micPending > 0)

\* C3: between a disconnected event and the next connected event no chunk is
\* passed to sendAudioData.
NoSendWhileDisconnected ==
  HasCall(calls, "simli.sendAudioData") => isSimliConnected

\* C4: between a disconnected event and the next connected event no
\* microphone frame is appended to the speech endpoint.
NoAppendWhileDisconnected ==
  HasCall(calls, "openai.appendInputAudio") => isSimliConnected

\* C5: with a speech client in place, a disconnected event pauses the speech
\* session exactly when the status was Connected (a repeated one pauses
\* nothing), and a connected event resumes it exactly when the status was not
\* Connected (a repeated one resumes nothing).  The first connected event of
\* a started endpoint belongs to no cycle and is left out.
PauseResumeOncePerCycle ==
  [][ /\ (openAIClientRef /\ lastOp' = "handleSimliDisconnect") =>
           (HasCall(calls', "openai.pause") <=> isSimliConnected)
      /\ (openAIClientRef /\ lastOp' = "handleSimliReconnect"
             /\ simliState # "starting") =>
           (HasCall(calls', "openai.resume") <=> ~isSimliConnected) ]_vars

\* C6: when a reconnect attempt of the rendering endpoint fails, an error is
\* shown, the session is torn down and onClose is invoked.
ReconnectFailureIsTerminal ==
  lastOp = "simliReconnectFailed" =>
    /\ error # ""
    /\ HasCall(calls, "onClose")
    /\ ~isAvatarVisible
    /\ ~isRecording
    /\ NothingHeld

\* C7: handling conversation.interrupted leaves no chunk in the chunk queue
\* and cancels the in-flight response of the speech endpoint.
InterruptFlushesQueue ==
  lastOp = "interruptConversation" =>
    /\ audioChunkQueueRef = <<>>
    /\ HasCall(calls, "openai.cancelResponse")

StopCancelsPending ==
  stopRequested =>
    /\ ~isRecording
    /\ ~isAvatarVisible
    /\ ~streamRef
    /\ ~processorRef
    /\ liveStreams = 0
    /\ liveProcessors = 0

\* C10: when the start of the rendering endpoint, or updateSession or connect
\* of the speech endpoint, rejects, an error is shown, the session is not
\* shown as active and capture is not running.
InitFailureLeavesSessionStopped ==
  lastOp \in {"startRejected", "updateSessionRejected", "connectRejected"} =>
    /\ error # ""
    /\ ~isAvatarVisible
    /\ ~isRecording

\* C11: when getUserMedia rejects, an error is shown, the session is not
\* recording, no processor node exists and the session is not shown as
\* active.
MicDenialLeavesSessionStopped ==
  lastOp = "micDenied" =>
    /\ error # ""
    /\ ~isRecording
    /\ ~processorRef
    /\ liveProcessors = 0
    /\ ~isAvatarVisible

\* C12: a connected event that no disconnected event preceded (the status is
\* still Connected) does not call resume on the speech endpoint.
ConnectedWithoutDisconnectIsNoOp ==
  [][ (lastOp' = "handleSimliReconnect" /\ isSimliConnected) =>
        ~HasCall(calls', "openai.resume") ]_vars

\* C13: at any time at most one handleStart is in progress and at most one
\* microphone stream and one processor node exist, a start requested
\* meanwhile having no effect.
StartIsGuarded ==
  /\ startPending <= 1
  /\ liveStreams <= 1
  /\ liveProcessors <= 1

IsPrefix(a, b) == Len(a) <= Len(b) /\ SubSeq(b, 1, Len(a)) = a

\* C14: while the busy flag is held no handler run dequeues a chunk or
\* forwards one: the forwarded sequence stays as it is and the queue only
\* grows at its tail.
OneDrainAtATime ==
  [][ isProcessingChunkRef =>
        /\ sent' = sent
        /\ IsPrefix(audioChunkQueueRef, audioChunkQueueRef') ]_vars

\* an audio delta arrived while the flag was held: it was queued and not
\* forwarded
DeltaQueuedWhileBusy ==
  /\ lastOp = "assistantAudioDelta"
  /\ isProcessingChunkRef
  /\ audioChunkQueueRef # <<>>
  /\ calls = <<>>

\* C15: at every handler boundary no drain is running, so the chunk queue is
\* empty and the busy flag is free: no enqueued chunk is stranded.
NoChunkStranded ==
  /\ audioChunkQueueRef = <<>>
  /\ ~isProcessingChunkRef

\* C16: the drain started by an audio delta stops with the queue empty and
\* with every chunk pushed so far forwarded.
DrainCompletes ==
  lastOp = "assistantAudioDelta" =>
    /\ audioChunkQueueRef = <<>>
    /\ Len(sent) = Len(pushed)

\* C17: after handleStop and until the next start request, no handler passes
\* a chunk to sendAudioData or a frame to appendInputAudio.
StopSilencesAudio ==
  stopRequested =>
    /\ ~HasCall(calls, "simli.sendAudioData")
    /\ ~HasCall(calls, "openai.appendInputAudio")

\* C18: only the audio-delta handler (push, and the drain it starts) changes
\* the chunk queue or the busy flag; every other handler leaves both as they
\* are.
QueueFrame ==
  [][ lastOp' # "assistantAudioDelta" =>
        UNCHANGED << audioChunkQueueRef, isProcessingChunkRef >> ]_vars

\* an interruption handled while chunks were queued under a held flag: they
\* are still queued
InterruptLeavesQueue ==
  /\ lastOp = "interruptConversation"
  /\ audioChunkQueueRef # <<>>
  /\ isProcessingChunkRef

\* C19: the reconnecting indicator is shown exactly when the status is not
\* Connected, and the two flags change only in the handlers of the rendering
\* endpoint's disconnected and connected events.
ConnectionStatusConsistent ==
  /\ [](isReconnectingSimli = ~isSimliConnected)
  /\ [][ connVars' # connVars =>
           lastOp' \in {"handleSimliDisconnect", "handleSimliReconnect"} ]_vars

\* a reconnect after a disconnect, with a session that was started and a
\* speech client resumed
ReconnectedAfterDisconnect ==
  /\ lastOp = "handleSimliReconnect"
  /\ HasCall(calls, "openai.resume")
  /\ isSimliConnected
  /\ ~isReconnectingSimli
  /\ pushed # <<>>

\* C20: the busy flag is free after every handler, also when sendAudioData
\* raised.
BusyFlagReleased == ~isProcessingChunkRef

====
